---------------------------- MODULE Spec2Model ----------------------------
(***************************************************************************)
(* Registration process of the hospital backend (package process):         *)
(* CreateRegistration, UpdateRegistrationStatus and the milestone          *)
(* handlers, over the registrations, department_schedules and milestones   *)
(* tables and the process-wide registrationMutex.                          *)
(*                                                                         *)
(* Every handler runs in its own goroutine (one per HTTP request).  A      *)
(* CreateRegistration request is modelled step by step, one step per       *)
(* database statement or mutex operation, because other requests run       *)
(* between its statements.  The other handlers touch a single row and are  *)
(* modelled as one step each.                                              *)
(***************************************************************************)
EXTENDS Integers, Sequences, FiniteSets, TLC

(***************************************************************************)
(* Bounds of the model.                                                    *)
(***************************************************************************)
NumReqs == 2        \* concurrent CreateRegistration requests
NumPatients == 2    \* rows of the patients table
NumDoctors == 3     \* rows of the doctors table (all of department 1)
MaxCapacity == 2    \* capacity of the largest schedule
MaxMileStones == 1  \* milestones ever created

Reqs == 1..NumReqs

(***************************************************************************)
(* Enumerations of model.go.                                               *)
(***************************************************************************)
committed == "committed"
accepted == "accepted"
terminated == "terminated"
RegistrationStatusEnum == {committed, accepted, terminated}

morning == "morning"
afternoon == "afternoon"
whole == "whole"
HalfDayEnum == {morning, afternoon, whole}

(***************************************************************************)
(* Master data the handlers only read: departments, doctors, patients.     *)
(* Department 1 has all the doctors, department 2 has none.  Accounts      *)
(* 1..NumDoctors belong to the doctors, the following ones to the          *)
(* patients.                                                               *)
(***************************************************************************)
Departments == {1, 2}

Doctors == [i \in 1..NumDoctors |-> [ID |-> i, AccountID |-> i, DepartmentID |-> 1]]

Patients == [i \in 1..NumPatients |-> [ID |-> i, AccountID |-> NumDoctors + i]]

(* The dates a request may name, and the processing date.                  *)
Yesterday == [Year |-> 2021, Month |-> 5, Day |-> 31]
Today == [Year |-> 2021, Month |-> 6, Day |-> 1]
Tomorrow == [Year |-> 2021, Month |-> 6, Day |-> 2]
Dates == {Yesterday, Tomorrow}

(***************************************************************************)
(* The department_schedules table as the schedule tooling created it:      *)
(* nobody is registered yet (Current = 0).  Slots that have no row are     *)
(* the missing schedules.                                                  *)
(***************************************************************************)
NewSchedule(id, dept, date, halfday, capacity) ==
    [ID |-> id, DepartmentID |-> dept, Year |-> date.Year, Month |-> date.Month,
     Day |-> date.Day, HalfDay |-> halfday, Capacity |-> capacity, Current |-> 0]

InitialSchedules ==
    << NewSchedule(1, 1, Tomorrow, morning, MaxCapacity),
       NewSchedule(2, 1, Tomorrow, afternoon, MaxCapacity - 1),
       NewSchedule(3, 1, Yesterday, morning, MaxCapacity - 1),
       NewSchedule(4, 2, Tomorrow, morning, MaxCapacity - 1),
       NewSchedule(5, 2, Tomorrow, afternoon, 0) >>

(***************************************************************************)
(* Zero values of the Go structs.                                          *)
(***************************************************************************)
ZeroSubmit == [DepartmentID |-> 0, Year |-> 0, Month |-> 0, Day |-> 0, HalfDay |-> ""]

ZeroSchedule ==
    [ID |-> 0, DepartmentID |-> 0, Year |-> 0, Month |-> 0, Day |-> 0,
     HalfDay |-> "", Capacity |-> 0, Current |-> 0]

ZeroRegistration ==
    [ID |-> 0, DoctorID |-> 0, PatientID |-> 0, DepartmentID |-> 0, Year |-> 0,
     Month |-> 0, Day |-> 0, HalfDay |-> "", Status |-> "", TerminatedCause |-> ""]

ZeroMileStone == [ID |-> 0, RegistrationID |-> 0, Activity |-> "", Checked |-> FALSE]

NoResponse == [op |-> "", req |-> 0, code |-> 0, msg |-> ""]

VARIABLES
    registrations,      \* registrations table: row i has ID i (rows are never deleted)
    schedules,          \* department_schedules table: row i has ID i
    milestones,         \* mile_stones table: ID -> row, deleted rows removed
    nextMileStoneID,    \* next auto-increment ID of the mile_stones table
    storeFails,         \* whether the database is one whose writes may fail
    registrationMutex,  \* TRUE while registrationMutex is locked
    pc,                 \* position of every CreateRegistration request
    submit,             \* its bound RegistrationSubmitJSON
    patient,            \* its patient.ID
    schedule,           \* its local DepartmentSchedule
    registration,       \* its local Registration
    response,           \* the HTTP response of the step just taken, if it returned one
    terminations        \* history: the registrations whose last acknowledged status
                        \* change (answer 201) was the one to terminated

vars ==
    << registrations, schedules, milestones, nextMileStoneID, storeFails,
       registrationMutex, pc, submit, patient, schedule, registration, response, terminations >>

dbVars == << registrations, schedules, milestones, nextMileStoneID, storeFails >>
localVars == << submit, patient, schedule, registration >>

Init ==
    /\ registrations = << >>
    /\ schedules = InitialSchedules
    /\ milestones = << >>
    /\ nextMileStoneID = 1
    /\ storeFails \in BOOLEAN
    /\ registrationMutex = FALSE
    /\ pc = [r \in Reqs |-> "start"]
    /\ submit = [r \in Reqs |-> ZeroSubmit]
    /\ patient = [r \in Reqs |-> 0]
    /\ schedule = [r \in Reqs |-> ZeroSchedule]
    /\ registration = [r \in Reqs |-> ZeroRegistration]
    /\ response = NoResponse
    /\ terminations = {}


(***************************************************************************)
(* GORM helpers.  Where(&struct) compares only the non-zero fields of the  *)
(* struct; First returns the matching row with the smallest primary key.   *)
(***************************************************************************)
Matches(row, cond, zero) ==
    \A f \in DOMAIN cond : cond[f] = zero[f] \/ row[f] = cond[f]

WhereRegistration(cond) ==
    {i \in DOMAIN registrations : Matches(registrations[i], cond, ZeroRegistration)}

WhereSchedule(cond) ==
    {i \in DOMAIN schedules : Matches(schedules[i], cond, ZeroSchedule)}

(* The outcomes of a write: db.Create and db.Save return an error or not.  *)
WriteOutcomes == IF storeFails THEN BOOLEAN ELSE {TRUE}

Min(S) == CHOOSE x \in S : \A y \in S : x <= y

(* db.Where("department_id = ?", id).Find(&doctors), in primary-key order. *)
RECURSIVE DoctorsOfFrom(_, _)
DoctorsOfFrom(dept, i) ==
    IF i > Len(Doctors) THEN << >>
    ELSE IF Doctors[i].DepartmentID = dept
         THEN << Doctors[i] >> \o DoctorsOfFrom(dept, i + 1)
         ELSE DoctorsOfFrom(dept, i + 1)

(* Mutant: the query of line 172 without its department condition.         *)
DoctorsOfAnyDepartment(dept) == Doctors

DoctorsOf(dept) == DoctorsOfFrom(dept, 1)

(* db.Where("account_id = ?", id).First(&patient) *)
PatientsOfAccount(account) == {i \in DOMAIN Patients : Patients[i].AccountID = account}

(***************************************************************************)
(* The responses of CreateRegistration.                                    *)
(***************************************************************************)
Returned(r, code, msg) == [op |-> "CreateRegistration", req |-> r, code |-> code, msg |-> msg]

(* A request returns: its locals go out of scope.                          *)
Return(r, code, msg) ==
    /\ pc' = [pc EXCEPT ![r] = "done"]
    /\ submit' = [submit EXCEPT ![r] = ZeroSubmit]
    /\ patient' = [patient EXCEPT ![r] = 0]
    /\ schedule' = [schedule EXCEPT ![r] = ZeroSchedule]
    /\ registration' = [registration EXCEPT ![r] = ZeroRegistration]
    /\ response' = Returned(r, code, msg)

Goto(r, label) ==
    /\ pc' = [pc EXCEPT ![r] = label]
    /\ response' = NoResponse

(***************************************************************************)
(* Inputs of a request: the account of the caller and the submitted JSON.  *)
(* Account 1 is a doctor's (no patient row), department 3 does not exist,  *)
(* "" is no half day.                                                      *)
(***************************************************************************)
AccountInputs == {1} \cup {Patients[i].AccountID : i \in DOMAIN Patients}
DepartmentInputs == Departments \cup {3}
HalfDayInputs == {morning, afternoon, ""}

(***************************************************************************)
(* Lines 129-145: the duplicate lookup for a bound request, before the     *)
(* mutex is taken.                                                         *)
(***************************************************************************)
DuplicateCond(s, p) ==
    [ZeroRegistration EXCEPT !.DepartmentID = s.DepartmentID,
                             !.PatientID = p,
                             !.Year = s.Year,
                             !.Month = s.Month,
                             !.Day = s.Day,
                             !.HalfDay = s.HalfDay]

IsDuplicate(s, p) ==
    \E i \in WhereRegistration(DuplicateCond(s, p)) : registrations[i].Status # terminated

(***************************************************************************)
(* CreateRegistration, lines 100-145: bind and validate the JSON, read the *)
(* department and the patient (tables no handler writes), then look for a  *)
(* duplicate.  One step: only the duplicate lookup reads data that other   *)
(* requests change.                                                        *)
(***************************************************************************)
CreateRegistrationDuplicate(r, account, dept, date, halfday) ==
    /\ pc[r] = "start"
    /\  LET s == [DepartmentID |-> dept, Year |-> date.Year, Month |-> date.Month,
                  Day |-> date.Day, HalfDay |-> halfday]
            found == PatientsOfAccount(account)
            p == IF found = {} THEN 0 ELSE Patients[Min(found)].ID
        IN  IF halfday \notin HalfDayEnum
            THEN Return(r, 400, "InvalidSubmitFormat")
            ELSE IF dept \notin Departments
            THEN Return(r, 400, "DepartmentNotFound")
            ELSE IF found = {}
            THEN Return(r, 400, "PatientNotFound")
            ELSE IF IsDuplicate(s, p)
            THEN Return(r, 400, "DuplicateRegistration")
            ELSE /\ submit' = [submit EXCEPT ![r] = s]
                 /\ patient' = [patient EXCEPT ![r] = p]
                 /\ Goto(r, "lock")
                 /\ UNCHANGED << schedule, registration >>
    /\ UNCHANGED << dbVars, registrationMutex, terminations >>

(***************************************************************************)
(* Line 148: registrationMutex.Lock() blocks while the mutex is locked.    *)
(***************************************************************************)
(* Mutant: Lock does not wait for the mutex to be free.                    *)
CreateRegistrationLockNoWait(r) ==
    /\ pc[r] = "lock"
    /\ registrationMutex' = TRUE
    /\ Goto(r, "schedule")
    /\ UNCHANGED << dbVars, localVars, terminations >>

CreateRegistrationLock(r) ==
    /\ pc[r] = "lock"
    /\ registrationMutex = FALSE
    /\ registrationMutex' = TRUE
    /\ Goto(r, "schedule")
    /\ UNCHANGED << dbVars, localVars, terminations >>

(***************************************************************************)
(* validateSchedule: a schedule of a past day is not valid.                *)
(***************************************************************************)
DateBefore(a, b) ==
    \/ a.Year < b.Year
    \/ a.Year = b.Year /\ a.Month < b.Month
    \/ a.Year = b.Year /\ a.Month = b.Month /\ a.Day < b.Day

validateSchedule(s) == ~DateBefore(s, Today)

(***************************************************************************)
(* Lines 150-168: read the schedule of the slot, reject a missing or past  *)
(* schedule and a full one.                                                *)
(***************************************************************************)
ScheduleCond(r) ==
    [ZeroSchedule EXCEPT !.DepartmentID = submit[r].DepartmentID,
                         !.Year = submit[r].Year,
                         !.Month = submit[r].Month,
                         !.Day = submit[r].Day,
                         !.HalfDay = submit[r].HalfDay]

(* Mutant: the capacity test of line 165 off by one.                       *)
NotEnoughCapacityOffByOne(s) == s.Current > s.Capacity

NotEnoughCapacity(s) == s.Current >= s.Capacity

(* Mutant: the capacity test of line 165 before the tests of lines 160-163. *)
CreateRegistrationScheduleCapacityFirst(r) ==
    /\ pc[r] = "schedule"
    /\ LET found == WhereSchedule(ScheduleCond(r))
           row == IF found = {} THEN ZeroSchedule ELSE schedules[Min(found)]
       IN  IF NotEnoughCapacity(row)
           THEN /\ registrationMutex' = FALSE
                /\ Return(r, 400, "NotEnoughCapacity")
           ELSE IF found = {} \/ ~validateSchedule(row)
           THEN /\ registrationMutex' = FALSE
                /\ Return(r, 400, "InvalidSchedule")
           ELSE /\ schedule' = [schedule EXCEPT ![r] = row]
                /\ Goto(r, "assign")
                /\ UNCHANGED << registrationMutex, submit, patient, registration >>
    /\ UNCHANGED << dbVars, terminations >>

CreateRegistrationSchedule(r) ==
    /\ pc[r] = "schedule"
    /\ LET found == WhereSchedule(ScheduleCond(r))
           row == IF found = {} THEN ZeroSchedule ELSE schedules[Min(found)]
       IN  IF found = {} \/ ~validateSchedule(row)
           THEN /\ registrationMutex' = FALSE
                /\ Return(r, 400, "InvalidSchedule")
           ELSE IF NotEnoughCapacity(row)
           THEN /\ registrationMutex' = FALSE
                /\ Return(r, 400, "NotEnoughCapacity")
           ELSE /\ schedule' = [schedule EXCEPT ![r] = row]
                /\ Goto(r, "assign")
                /\ UNCHANGED << registrationMutex, submit, patient, registration >>
    /\ UNCHANGED << dbVars, terminations >>

(***************************************************************************)
(* Lines 170-201: list the doctors of the department, count registrations  *)
(* for each of them and keep the first index with a strictly smaller       *)
(* count.  The count query is Where(&registration) with the department and *)
(* the slot set and DoctorID still zero, so it is the same query for every *)
(* doctor: the registrations of the slot, whatever their doctor or status. *)
(***************************************************************************)
MaxInt64 == 2147483647  \* math.MaxInt64, at the width of the model's integers

CountCond(r) ==
    [ZeroRegistration EXCEPT !.DepartmentID = submit[r].DepartmentID,
                             !.Year = submit[r].Year,
                             !.Month = submit[r].Month,
                             !.Day = submit[r].Day,
                             !.HalfDay = submit[r].HalfDay]

doctorRegistrationCount(r, doctors) ==
    [i \in 1..Len(doctors) |-> Cardinality(WhereRegistration(CountCond(r)))]

(* The loop of lines 185-191; indexes are Go's, from 0, and -1 is none.    *)
RECURSIVE FindMin(_, _, _, _)
FindMin(counts, i, minCount, minIndex) ==
    IF i >= Len(counts) THEN minIndex
    ELSE IF minCount > counts[i + 1]
         THEN FindMin(counts, i + 1, counts[i + 1], i)
         ELSE FindMin(counts, i + 1, minCount, minIndex)

CreateRegistrationAssign(r) ==
    /\ pc[r] = "assign"
    /\ LET doctors == DoctorsOf(submit[r].DepartmentID)
           minIndex == FindMin(doctorRegistrationCount(r, doctors), 0, MaxInt64, -1)
       IN  IF minIndex = -1
           THEN /\ registrationMutex' = FALSE
                /\ Return(r, 400, "CannotAssignDoctor")
           ELSE /\ registration' = [registration EXCEPT ![r] =
                       [CountCond(r) EXCEPT !.PatientID = patient[r],
                                            !.DoctorID = doctors[minIndex + 1].ID]]
                /\ Goto(r, "create")
                /\ UNCHANGED << registrationMutex, submit, patient, schedule >>
    /\ UNCHANGED << dbVars, terminations >>

(***************************************************************************)
(* Lines 203-207: insert the registration.  The insert fills the ID and    *)
(* the column defaults (status 'committed', no cause); it may fail.        *)
(***************************************************************************)
(* Mutant: the status column defaults to 'accepted'.                       *)
InsertedAccepted(reg) ==
    [reg EXCEPT !.ID = Len(registrations) + 1, !.Status = accepted]

(* The row db.Create stores for reg, and leaves in reg.                    *)
Inserted(reg) ==
    [reg EXCEPT !.ID = Len(registrations) + 1, !.Status = committed]

(* Mutant: a failed insert sends the request back to its duplicate check.  *)
CreateRegistrationCreateRetry(r) ==
    /\ pc[r] = "create"
    /\ \E ok \in WriteOutcomes :
        IF ok
        THEN LET row == Inserted(registration[r])
             IN  /\ registrations' = Append(registrations, row)
                 /\ registration' = [registration EXCEPT ![r] = row]
                 /\ Goto(r, "save")
                 /\ UNCHANGED << registrationMutex, submit, patient, schedule >>
        ELSE /\ registrationMutex' = FALSE
             /\ Goto(r, "start")
             /\ submit' = [submit EXCEPT ![r] = ZeroSubmit]
             /\ patient' = [patient EXCEPT ![r] = 0]
             /\ schedule' = [schedule EXCEPT ![r] = ZeroSchedule]
             /\ registration' = [registration EXCEPT ![r] = ZeroRegistration]
             /\ UNCHANGED registrations
    /\ UNCHANGED << schedules, milestones, nextMileStoneID, storeFails, terminations >>

CreateRegistrationCreate(r) ==
    /\ pc[r] = "create"
    /\ \E ok \in WriteOutcomes :
        IF ok
        THEN LET row == Inserted(registration[r])
             IN  /\ registrations' = Append(registrations, row)
                 /\ registration' = [registration EXCEPT ![r] = row]
                 /\ Goto(r, "save")
                 /\ UNCHANGED << registrationMutex, submit, patient, schedule >>
        ELSE /\ registrationMutex' = FALSE
             /\ Return(r, 406, "InvalidRegistration")
             /\ UNCHANGED registrations
    /\ UNCHANGED << schedules, milestones, nextMileStoneID, storeFails, terminations >>

(***************************************************************************)
(* Lines 209-213: increment Current in the local schedule and save the     *)
(* whole row; the save may fail.                                           *)
(***************************************************************************)
(* Mutant: line 209 adds 2.                                                *)
IncrementedTwice(s) == [s EXCEPT !.Current = s.Current + 2]

(* Line 209: schedule.Current = schedule.Current + 1.                      *)
Incremented(s) == [s EXCEPT !.Current = s.Current + 1]

(* Mutant: the failed save returns without line 211's Unlock.              *)
CreateRegistrationSaveNoUnlock(r) ==
    /\ pc[r] = "save"
    /\ \E ok \in WriteOutcomes :
        IF ok
        THEN LET row == Incremented(schedule[r])
             IN  /\ schedules' = [schedules EXCEPT ![row.ID] = row]
                 /\ schedule' = [schedule EXCEPT ![r] = row]
                 /\ Goto(r, "respond")
                 /\ UNCHANGED << registrationMutex, submit, patient, registration >>
        ELSE /\ Return(r, 400, "InvalidSchedule")
             /\ UNCHANGED << schedules, registrationMutex >>
    /\ UNCHANGED << registrations, milestones, nextMileStoneID, storeFails, terminations >>

CreateRegistrationSave(r) ==
    /\ pc[r] = "save"
    /\ \E ok \in WriteOutcomes :
        IF ok
        THEN LET row == Incremented(schedule[r])
             IN  /\ schedules' = [schedules EXCEPT ![row.ID] = row]
                 /\ schedule' = [schedule EXCEPT ![r] = row]
                 /\ Goto(r, "respond")
                 /\ UNCHANGED << registrationMutex, submit, patient, registration >>
        ELSE /\ registrationMutex' = FALSE
             /\ Return(r, 400, "InvalidSchedule")
             /\ UNCHANGED schedules
    /\ UNCHANGED << registrations, milestones, nextMileStoneID, storeFails, terminations >>

(***************************************************************************)
(* Lines 215-247: read the names, unlock and answer 200.                   *)
(***************************************************************************)
(* Mutant: the success path returns without line 246's Unlock.             *)
CreateRegistrationRespondNoUnlock(r) ==
    /\ pc[r] = "respond"
    /\ Return(r, 200, "ok")
    /\ UNCHANGED << dbVars, registrationMutex, terminations >>

CreateRegistrationRespond(r) ==
    /\ pc[r] = "respond"
    /\ registrationMutex' = FALSE
    /\ Return(r, 200, "ok")
    /\ UNCHANGED << dbVars, terminations >>

CreateRegistration(r) ==
    \/ \E account \in AccountInputs, dept \in DepartmentInputs, date \in Dates,
          halfday \in HalfDayInputs :
            CreateRegistrationDuplicate(r, account, dept, date, halfday)
    \/ CreateRegistrationLock(r)
    \/ CreateRegistrationSchedule(r)
    \/ CreateRegistrationAssign(r)
    \/ CreateRegistrationCreate(r)
    \/ CreateRegistrationSave(r)
    \/ CreateRegistrationRespond(r)

Admission == \E r \in Reqs : CreateRegistration(r)

(***************************************************************************)
(* The other handlers answer in the step that runs them.                   *)
(***************************************************************************)
Answered(op, code, msg) == [op |-> op, req |-> 0, code |-> code, msg |-> msg]

admissionVars == << registrationMutex, pc, submit, patient, schedule, registration >>

(* Request parameters.  A negative number stands for a parameter that      *)
(* strconv.ParseUint rejects, 0 for an ID no row has.                      *)
RegistrationIDInputs == (0 - 1)..NumReqs
TerminatedCauseInputs == {"", "patient absent"}

(***************************************************************************)
(* UpdateRegistrationStatus, lines 363-389.  The handler loads the         *)
(* registration, sets Status and TerminatedCause in its local copy and     *)
(* answers; it has no statement that writes the copy back.                 *)
(***************************************************************************)
(* Mutant: the cause test of line 379 accepts the empty cause.             *)
HasCauseAlways(terminatedCause) == TRUE

HasCause(terminatedCause) == terminatedCause # ""

UpdateRegistrationStatus(registrationID, status, terminatedCause) ==
    /\ IF registrationID < 0
       THEN /\ response' = Answered("UpdateRegistrationStatus", 400, "ParseUint")
            /\ UNCHANGED terminations
       ELSE IF registrationID \notin DOMAIN registrations
       THEN /\ response' = Answered("UpdateRegistrationStatus", 400, "record not found")
            /\ UNCHANGED terminations
       ELSE IF status = terminated /\ ~HasCause(terminatedCause)
       THEN /\ response' = Answered("UpdateRegistrationStatus", 400, "Missing terminated causes")
            /\ UNCHANGED terminations
       ELSE /\ response' = Answered("UpdateRegistrationStatus", 201, "ok")
            /\ terminations' = IF status = terminated
                               THEN terminations \cup {registrationID}
                               ELSE terminations \ {registrationID}
    /\ UNCHANGED << dbVars, admissionVars >>

Lifecycle ==
    \E registrationID \in RegistrationIDInputs, status \in RegistrationStatusEnum,
       terminatedCause \in TerminatedCauseInputs :
        UpdateRegistrationStatus(registrationID, status, terminatedCause)

(***************************************************************************)
(* Milestones.                                                             *)
(***************************************************************************)
MileStoneIDInputs == 1..MaxMileStones
DoctorIDInputs == 0..NumDoctors      \* StrToUInt gives 0 for what is no number
ActivityInputs == {"", "x-ray"}
CheckedInputs == {"true", "false", ""}

(* CreateMileStoneByDoctor, lines 400-415; the insert may fail.            *)
CreateMileStoneByDoctor(registrationID, activity) ==
    /\ nextMileStoneID <= MaxMileStones
    /\ \E ok \in WriteOutcomes :
        IF registrationID < 0
        THEN /\ response' = Answered("CreateMileStoneByDoctor", 400, "ParseUint")
             /\ UNCHANGED << milestones, nextMileStoneID >>
        ELSE IF ~ok
        THEN /\ response' = Answered("CreateMileStoneByDoctor", 422, "error")
             /\ UNCHANGED << milestones, nextMileStoneID >>
        ELSE /\ milestones' = milestones @@ (nextMileStoneID :>
                    [ID |-> nextMileStoneID, RegistrationID |-> registrationID,
                     Activity |-> activity, Checked |-> FALSE])
             /\ nextMileStoneID' = nextMileStoneID + 1
             /\ response' = Answered("CreateMileStoneByDoctor", 201, "ok")
    /\ UNCHANGED << registrations, schedules, storeFails, admissionVars, terminations >>

(* DoctorAccessToMileStone, lines 463-473: First leaves the zero struct    *)
(* when there is no such row.                                              *)
DoctorAccessToMileStone(mileStoneID, DoctorID) ==
    LET mileStone == IF mileStoneID \in DOMAIN milestones
                     THEN milestones[mileStoneID] ELSE ZeroMileStone
        registrations_ == IF mileStone.RegistrationID \in DOMAIN registrations
                          THEN registrations[mileStone.RegistrationID]
                          ELSE ZeroRegistration
    IN  DoctorID = registrations_.DoctorID

(* The guard of lines 432 and 456: the handler answers 403 when            *)
(* DoctorAccessToMileStone returns true.                                   *)
Forbidden(mileStoneID, DoctorID) == DoctorAccessToMileStone(mileStoneID, DoctorID)

(* UpdateMileStoneByDoctor, lines 427-444: the milestone is loaded and     *)
(* changed in the local copy, which is not written back.                   *)
UpdateMileStoneByDoctor(mileStoneID, DoctorID, checked, activity) ==
    /\ IF Forbidden(mileStoneID, DoctorID)
       THEN response' = Answered("UpdateMileStoneByDoctor", 403, "unauthorized")
       ELSE IF checked \notin {"true", "false"}
       THEN response' = Answered("UpdateMileStoneByDoctor", 400, "ParseBool")
       ELSE response' = Answered("UpdateMileStoneByDoctor", 200, "ok")
    /\ UNCHANGED << dbVars, admissionVars, terminations >>

(* DeleteMileStoneByDoctor, lines 454-461.                                 *)
DeleteMileStoneByDoctor(mileStoneID, DoctorID) ==
    /\ IF Forbidden(mileStoneID, DoctorID)
       THEN /\ response' = Answered("DeleteMileStoneByDoctor", 403, "unauthorized")
            /\ UNCHANGED milestones
       ELSE /\ milestones' = [i \in DOMAIN milestones \ {mileStoneID} |-> milestones[i]]
            /\ response' = Answered("DeleteMileStoneByDoctor", 200, "ok")
    /\ UNCHANGED << registrations, schedules, nextMileStoneID, storeFails, admissionVars,
                    terminations >>

CreateMileStone ==
    \E registrationID \in RegistrationIDInputs, activity \in ActivityInputs :
        CreateMileStoneByDoctor(registrationID, activity)

UpdateMileStone ==
    \E mileStoneID \in MileStoneIDInputs, DoctorID \in DoctorIDInputs,
       checked \in CheckedInputs, activity \in ActivityInputs :
        UpdateMileStoneByDoctor(mileStoneID, DoctorID, checked, activity)

DeleteMileStone ==
    \E mileStoneID \in MileStoneIDInputs, DoctorID \in DoctorIDInputs :
        DeleteMileStoneByDoctor(mileStoneID, DoctorID)

(***************************************************************************)
(* Specifications.  Spec is the admission requests alone, SpecLifecycle    *)
(* adds the status handler and SpecMileStone the milestone handlers.  In   *)
(* the StoreOk specifications the database is one whose writes succeed.    *)
(***************************************************************************)
Next == Admission

Spec == Init /\ [][Next]_vars

NextLifecycle == Admission \/ Lifecycle

SpecLifecycle == Init /\ [][NextLifecycle]_vars

NextMileStone == Admission \/ CreateMileStone \/ DeleteMileStone \/ UpdateMileStone

SpecMileStone == Init /\ [][NextMileStone]_vars

InitStoreOk == Init /\ storeFails = FALSE

SpecStoreOk == InitStoreOk /\ [][Next]_vars

SpecLifecycleStoreOk == InitStoreOk /\ [][NextLifecycle]_vars

SpecMileStoneStoreOk == InitStoreOk /\ [][NextMileStone]_vars

(* The admission requests under a fair scheduler: a request that can take  *)
(* a step (a goroutine that is runnable, or blocked in Lock while the      *)
(* mutex stays free) eventually takes one.                                 *)
Fairness == \A r \in Reqs : WF_vars(CreateRegistration(r))

SpecFair == Init /\ [][Next]_vars /\ Fairness

(* Every handler: admissions, status changes and milestones.               *)
NextAll ==
    \/ Admission
    \/ Lifecycle
    \/ CreateMileStone
    \/ DeleteMileStone
    \/ UpdateMileStone

SpecAll == Init /\ [][NextAll]_vars

SpecAllStoreOk == InitStoreOk /\ [][NextAll]_vars

(***************************************************************************)
(* Properties.                                                             *)
(***************************************************************************)
SlotFields == {"DepartmentID", "Year", "Month", "Day", "HalfDay"}

(* a and b (registrations, schedules or submits) name the same slot.       *)
SameSlot(a, b) == \A f \in SlotFields : a[f] = b[f]

(* The registrations of the slot of s that are not terminated.             *)
ActiveOfSlot(s) ==
    {i \in DOMAIN registrations :
        SameSlot(registrations[i], s) /\ registrations[i].Status # terminated}

(* C1: every schedule has 0 <= Current <= Capacity in every reachable      *)
(* state, whatever the interleaving of the CreateRegistration requests.    *)
CapacityInvariant ==
    \A i \in DOMAIN schedules :
        0 <= schedules[i].Current /\ schedules[i].Current <= schedules[i].Capacity

(* A schedule was filled to its capacity by admissions while another       *)
(* request for the same slot has passed its duplicate check and waits for  *)
(* the mutex.                                                              *)
CapacityWitness ==
    \E i \in DOMAIN schedules, r \in Reqs :
        /\ schedules[i].Capacity > 0
        /\ schedules[i].Current = schedules[i].Capacity
        /\ pc[r] = "lock"
        /\ SameSlot(submit[r], schedules[i])

(* C2: at most one registration that is not terminated per (patient,       *)
(* department, date, half day).                                            *)
NoDoubleBooking ==
    \A i, j \in DOMAIN registrations :
        ( /\ registrations[i].PatientID = registrations[j].PatientID
          /\ SameSlot(registrations[i], registrations[j])
          /\ registrations[i].Status # terminated
          /\ registrations[j].Status # terminated ) => i = j

(* C3: the registrations of a slot that are not terminated never number    *)
(* more than the capacity of its schedule, store failures included.        *)
BookingsWithinCapacity ==
    \A i \in DOMAIN schedules :
        Cardinality(ActiveOfSlot(schedules[i])) <= schedules[i].Capacity

(* C4: a request that returns an error leaves the schedules and the        *)
(* registrations as they were before it: the returning step changes        *)
(* neither, and no registration the request inserted earlier is stored.    *)
FailedAdmissionChangesNothing ==
    [][\A r \in Reqs :
        (pc[r] # "done" /\ pc'[r] = "done" /\ response'.code # 200) =>
            /\ registrations' = registrations
            /\ schedules' = schedules
            /\ registration[r].ID \notin DOMAIN registrations']_vars

(* The load of a doctor for the slot of s: the registrations of the slot   *)
(* assigned to the doctor that are not terminated.                         *)
Load(doctorID, s) ==
    Cardinality({i \in ActiveOfSlot(s) : registrations[i].DoctorID = doctorID})

(* C5: the doctor a request is about to be registered with has a minimal   *)
(* load for the slot among the doctors of the department.  (The            *)
(* registrations cannot change between the decision and the insert: the    *)
(* request holds the mutex.)                                               *)
LeastLoadAssignment ==
    \A r \in Reqs :
        pc[r] = "create" =>
            \A i \in DOMAIN Doctors :
                Doctors[i].DepartmentID = submit[r].DepartmentID =>
                    Load(registration[r].DoctorID, submit[r]) <= Load(Doctors[i].ID, submit[r])

(* A request is between the start of its duplicate check and the end of    *)
(* its commit: the check is done, the schedule not yet saved.              *)
InAdmission(r) == pc[r] \in {"lock", "schedule", "assign", "create", "save"}

(* C10: at most one request per slot is between the start of its           *)
(* duplicate check and the end of its commit.                              *)
SerializedPerSlot ==
    \A r1, r2 \in Reqs :
        (InAdmission(r1) /\ InAdmission(r2) /\ SameSlot(submit[r1], submit[r2])) => r1 = r2

(* C6: a transition to terminated with a cause leaves the stored           *)
(* registration terminated, with the cause as supplied.                    *)
TerminationStored ==
    [][\A id \in DOMAIN registrations, cause \in TerminatedCauseInputs \ {""} :
        UpdateRegistrationStatus(id, terminated, cause) =>
            /\ registrations'[id].Status = terminated
            /\ registrations'[id].TerminatedCause = cause]_vars

(* C7: a transition to terminated without a cause is answered 400          *)
(* "Missing terminated causes" and changes no stored registration.         *)
TerminationRequiresCause ==
    [][\A id \in DOMAIN registrations :
        UpdateRegistrationStatus(id, terminated, "") =>
            /\ response' = Answered("UpdateRegistrationStatus", 400, "Missing terminated causes")
            /\ registrations' = registrations]_vars

(* The handler has just refused a termination without a cause; only an     *)
(* existing registration gets that answer.                                 *)
TerminationRequiresCauseWitness ==
    /\ response = Answered("UpdateRegistrationStatus", 400, "Missing terminated causes")
    /\ \E id \in DOMAIN registrations : registrations[id].Status = committed

(* The doctor of the registration the milestone belongs to.                *)
AssignedDoctor(mileStoneID) ==
    registrations[milestones[mileStoneID].RegistrationID].DoctorID

(* C8: an update or a delete of a milestone by a doctor other than the one *)
(* of its registration is answered 403 and leaves the milestones as they   *)
(* were.                                                                   *)
UnauthorizedMileStoneRefused ==
    [][\A m \in DOMAIN milestones, d \in DoctorIDInputs :
        ( /\ milestones[m].RegistrationID \in DOMAIN registrations
          /\ d # AssignedDoctor(m)
          /\ \/ DeleteMileStoneByDoctor(m, d)
             \/ \E checked \in CheckedInputs, activity \in ActivityInputs :
                    UpdateMileStoneByDoctor(m, d, checked, activity) ) =>
            /\ response'.code = 403
            /\ milestones' = milestones]_vars

(* C9: a request of a patient for a slot is refused as a duplicate exactly *)
(* when the patient has a registration for the slot that was not           *)
(* transitioned to terminated: a registration whose termination was        *)
(* acknowledged does not block a new one.                                  *)
DuplicateUntilTerminated ==
    [][\A r \in Reqs, i \in DOMAIN Patients, dept \in Departments, date \in Dates,
          halfday \in HalfDayEnum :
        CreateRegistrationDuplicate(r, Patients[i].AccountID, dept, date, halfday) =>
            ( response'.msg = "DuplicateRegistration" <=>
                \E j \in DOMAIN registrations :
                    /\ registrations[j].PatientID = Patients[i].ID
                    /\ SameSlot(registrations[j],
                                [DepartmentID |-> dept, Year |-> date.Year,
                                 Month |-> date.Month, Day |-> date.Day,
                                 HalfDay |-> halfday])
                    /\ j \notin terminations )]_vars

(* A request holds the mutex from Lock (line 148) to the Unlock of the     *)
(* path it leaves on.                                                      *)
Holding(r) == pc[r] \in {"schedule", "assign", "create", "save", "respond"}

(* C11: the mutex is locked exactly while one request that has not         *)
(* returned is past its Lock; when every request past its Lock has         *)
(* returned, on whatever path, the mutex is free.                          *)
GuardReleasedOnEveryExit ==
    /\ registrationMutex <=> \E r \in Reqs : Holding(r)
    /\ \A r1, r2 \in Reqs : Holding(r1) /\ Holding(r2) => r1 = r2

(* A request has left on an error path after its Lock (its insert failed)  *)
(* and the mutex is free again.                                            *)
GuardReleasedWitness ==
    \E r \in Reqs :
        /\ response = Returned(r, 406, "InvalidRegistration")
        /\ pc[r] = "done"
        /\ registrationMutex = FALSE

(* A request is between its capacity check and its commit.                 *)
InWindow(r) == pc[r] \in {"schedule", "assign", "create", "save"}

(* C12, as claimed: admissions for different slots do not block one        *)
(* another: a request that has reached its Lock can take it while a        *)
(* request for a different slot is between its capacity check and its      *)
(* commit, so that both are inside that window together.                   *)
DifferentSlotsConcurrent ==
    \A r1, r2 \in Reqs :
        (/\ pc[r1] = "lock"
         /\ InWindow(r2)
         /\ ~SameSlot(submit[r1], submit[r2])) => ENABLED CreateRegistrationLock(r1)

(* C12, amended: the mutex is one for the whole process, so requests for   *)
(* different slots are never between capacity check and commit together,   *)
(* and one that has reached its Lock is blocked while the other is there.  *)
DifferentSlotsSerialized ==
    \A r1, r2 \in Reqs :
        (InWindow(r2) /\ r1 # r2 /\ ~SameSlot(submit[r1], submit[r2])) =>
            /\ ~InWindow(r1)
            /\ ~ENABLED CreateRegistrationLock(r1)

(* A request waits at its Lock while a request for another slot is         *)
(* between its capacity check and its commit.                              *)
DifferentSlotsSerializedWitness ==
    \E r1, r2 \in Reqs :
        /\ pc[r1] = "lock"
        /\ InWindow(r2)
        /\ submit[r1].DepartmentID # 0
        /\ submit[r2].DepartmentID # 0
        /\ ~SameSlot(submit[r1], submit[r2])

LeastLoaded(s) ==
    {i \in DOMAIN Doctors :
        /\ Doctors[i].DepartmentID = s.DepartmentID
        /\ \A j \in DOMAIN Doctors :
              Doctors[j].DepartmentID = s.DepartmentID =>
                  Load(Doctors[i].ID, s) <= Load(Doctors[j].ID, s)}

(* C14: when several doctors of the department are tied for the minimal    *)
(* load, the doctor a request is about to be registered with is the        *)
(* earliest of them in the order of the doctors table.                     *)
TieBreakEarliest ==
    \A r \in Reqs :
        (pc[r] = "create" /\ Cardinality(LeastLoaded(submit[r])) >= 2) =>
            \E i \in LeastLoaded(submit[r]) :
                /\ registration[r].DoctorID = Doctors[i].ID
                /\ \A j \in LeastLoaded(submit[r]) : i <= j

(* Request r takes a step.                                                 *)
Steps(r) == pc'[r] # pc[r]

(* C15: a request that succeeds inserts one registration, committed, of    *)
(* the requesting patient and the requested department and slot, and no    *)
(* other registration changes; it adds exactly 1 to Current of the         *)
(* schedule of that slot, and no other schedule and no other field         *)
(* changes; its other steps change no registration and no schedule.        *)
SuccessCreatesOneBooking ==
    [][\A r \in Reqs :
        /\ (pc[r] = "create" /\ pc'[r] = "save") =>
              /\ Len(registrations') = Len(registrations) + 1
              /\ SubSeq(registrations', 1, Len(registrations)) = registrations
              /\ LET new == registrations'[Len(registrations')]
                 IN  /\ new.Status = committed
                     /\ new.TerminatedCause = ""
                     /\ new.PatientID = patient[r]
                     /\ SameSlot(new, submit[r])
              /\ schedules' = schedules
        /\ (pc[r] = "save" /\ pc'[r] = "respond") =>
              /\ registrations' = registrations
              /\ \A k \in DOMAIN schedules :
                    IF SameSlot(schedules[k], submit[r])
                    THEN schedules'[k] =
                            [schedules[k] EXCEPT !.Current = schedules[k].Current + 1]
                    ELSE schedules'[k] = schedules[k]
        /\ (Steps(r) /\ pc[r] \notin {"create", "save"}) =>
              /\ registrations' = registrations
              /\ schedules' = schedules]_vars

(* A request was answered 200: its registration is the last one stored,    *)
(* committed, and the schedule of its slot counts it.                      *)
SuccessWitness ==
    \E r \in Reqs :
        /\ response = Returned(r, 200, "ok")
        /\ Len(registrations) >= 1
        /\ registrations[Len(registrations)].Status = committed
        /\ \E k \in DOMAIN schedules :
              /\ SameSlot(schedules[k], registrations[Len(registrations)])
              /\ schedules[k].Current >= 1

(* C16: Current of a schedule changes only in the save step of a request   *)
(* that holds the mutex and has inserted its registration, and then by     *)
(* exactly +1; every other step (a failing admission, a status change,     *)
(* termination included, a milestone created, updated or deleted) leaves   *)
(* Current of every schedule as it is.                                     *)
OccupancyOnlyByCommit ==
    [][\A k \in DOMAIN schedules :
        schedules'[k].Current # schedules[k].Current =>
            /\ schedules'[k].Current = schedules[k].Current + 1
            /\ registrationMutex
            /\ \E r \in Reqs :
                  /\ pc[r] = "save"
                  /\ pc'[r] = "respond"
                  /\ SameSlot(schedules[k], submit[r])]_vars

(* A termination was acknowledged and a milestone created for a            *)
(* registration whose schedule still counts it.                            *)
OccupancyOnlyByCommitWitness ==
    /\ terminations # {}
    /\ DOMAIN milestones # {}
    /\ \E k \in DOMAIN schedules : schedules[k].Current >= 1
    /\ \E r \in Reqs : response = Returned(r, 400, "NotEnoughCapacity")

(* The schedules of the slot a request names.                              *)
SchedulesOfSlot(s) == {k \in DOMAIN schedules : SameSlot(schedules[k], s)}

(* C17: the errors of a well-formed request are decided in the order       *)
(* duplicate, schedule, capacity, doctor.  A request of a patient who has  *)
(* a registration of the slot that is not terminated is answered           *)
(* DuplicateRegistration whatever the schedule; past that, a slot without  *)
(* a schedule or with a past one is answered InvalidSchedule; past that, a *)
(* full schedule is answered NotEnoughCapacity whatever the doctors; past  *)
(* that, a department without doctors is answered CannotAssignDoctor and   *)
(* nothing stored changes.                                                 *)
ErrorPrecedence ==
    [][/\ \A r \in Reqs, i \in DOMAIN Patients, dept \in Departments, date \in Dates,
             halfday \in HalfDayEnum :
            ( /\ CreateRegistrationDuplicate(r, Patients[i].AccountID, dept, date, halfday)
              /\ \E j \in DOMAIN registrations :
                    /\ registrations[j].PatientID = Patients[i].ID
                    /\ registrations[j].Status # terminated
                    /\ SameSlot(registrations[j],
                                [DepartmentID |-> dept, Year |-> date.Year,
                                 Month |-> date.Month, Day |-> date.Day,
                                 HalfDay |-> halfday]) )
            => response' = Returned(r, 400, "DuplicateRegistration")
       /\ \A r \in Reqs :
            (pc[r] = "schedule" /\ Steps(r)) =>
                LET ks == SchedulesOfSlot(submit[r])
                IN  IF ks = {} \/ \E k \in ks : DateBefore(schedules[k], Today)
                    THEN response' = Returned(r, 400, "InvalidSchedule")
                    ELSE IF \E k \in ks : schedules[k].Current >= schedules[k].Capacity
                    THEN response' = Returned(r, 400, "NotEnoughCapacity")
                    ELSE pc'[r] = "assign"
       /\ \A r \in Reqs :
            (pc[r] = "assign" /\ Steps(r)) =>
                IF \E i \in DOMAIN Doctors : Doctors[i].DepartmentID = submit[r].DepartmentID
                THEN pc'[r] = "create"
                ELSE /\ response' = Returned(r, 400, "CannotAssignDoctor")
                     /\ dbVars' = dbVars]_vars

(* A request was answered NotEnoughCapacity while nothing is registered:   *)
(* its slot is the one of capacity 0, of the department without doctors.   *)
ErrorPrecedenceWitness ==
    /\ \E r \in Reqs : response = Returned(r, 400, "NotEnoughCapacity")
    /\ registrations = << >>

(* C18: an update or a delete of a milestone by the doctor of its          *)
(* registration is accepted and takes effect: after the update the stored  *)
(* milestone carries the activity and the checked flag supplied, after the *)
(* delete there is no such milestone.                                      *)
AssignedDoctorMileStoneEffect ==
    [][\A m \in DOMAIN milestones :
        milestones[m].RegistrationID \in DOMAIN registrations =>
            /\ DeleteMileStoneByDoctor(m, AssignedDoctor(m)) =>
                  /\ response'.code = 200
                  /\ m \notin DOMAIN milestones'
            /\ \A checked \in {"true", "false"}, activity \in ActivityInputs :
                  UpdateMileStoneByDoctor(m, AssignedDoctor(m), checked, activity) =>
                      /\ response'.code = 200
                      /\ m \in DOMAIN milestones'
                      /\ milestones'[m].Activity = activity
                      /\ milestones'[m].Checked = (checked = "true")]_vars

(* Request r takes its insert step or its save step and the write fails.   *)
CommitWriteFails(r) ==
    \/ pc[r] = "create" /\ Steps(r) /\ pc'[r] # "save"
    \/ pc[r] = "save" /\ Steps(r) /\ pc'[r] # "respond"

(* C19, as claimed: a request whose insert or save fails does not answer   *)
(* with an error at once: it goes back to its duplicate check and runs the *)
(* whole decision again.                                                   *)
CommitFailureRetried ==
    [][\A r \in Reqs :
        CommitWriteFails(r) => (pc'[r] = "start" /\ response' = NoResponse)]_vars

(* C19, amended: a request whose insert or save fails is not retried: it   *)
(* releases the mutex and returns at once, 406 InvalidRegistration for the *)
(* insert and 400 InvalidSchedule for the save; no request ever goes back  *)
(* to its duplicate check, and a request that has returned takes no        *)
(* further step.                                                           *)
CommitFailureReturned ==
    [][\A r \in Reqs :
        /\ CommitWriteFails(r) =>
              /\ pc'[r] = "done"
              /\ registrationMutex' = FALSE
              /\ response' = IF pc[r] = "create"
                             THEN Returned(r, 406, "InvalidRegistration")
                             ELSE Returned(r, 400, "InvalidSchedule")
        /\ Steps(r) => (pc'[r] # "start" /\ pc[r] # "done")]_vars

(* A request's insert failed and it has returned 406, nothing stored.      *)
CommitFailureReturnedWitness ==
    \E r \in Reqs :
        /\ response = Returned(r, 406, "InvalidRegistration")
        /\ storeFails
        /\ registrations = << >>

(* C20: under a fair scheduler every request returns: none waits forever   *)
(* at its Lock, and the requests do not deadlock.                          *)
EveryRequestReturns ==
    /\ \A r \in Reqs : <>(pc[r] = "done")
    /\ \A r \in Reqs : (pc[r] = "lock") ~> (pc[r] = "schedule")

(* Every request has returned, one of them after a failed save, and the    *)
(* mutex is free.                                                          *)
EveryRequestReturnsWitness ==
    /\ \A r \in Reqs : pc[r] = "done"
    /\ storeFails
    /\ registrations # << >>
    /\ \A k \in DOMAIN schedules : schedules[k].Current = 0
    /\ registrationMutex = FALSE

(* C21: every stored registration has a doctor, and the doctor is one of   *)
(* the doctors of the registration's department.                           *)
DoctorOfDepartment ==
    \A j \in DOMAIN registrations :
        /\ registrations[j].DoctorID # 0
        /\ \E i \in DOMAIN Doctors :
              /\ Doctors[i].ID = registrations[j].DoctorID
              /\ Doctors[i].DepartmentID = registrations[j].DepartmentID

(* A registration is stored with its doctor, and a request for the         *)
(* department without doctors was answered CannotAssignDoctor.             *)
DoctorOfDepartmentWitness ==
    /\ registrations # << >>
    /\ \A j \in DOMAIN registrations : registrations[j].DoctorID \in 1..NumDoctors
    /\ \E r \in Reqs : response = Returned(r, 400, "CannotAssignDoctor")

=============================================================================
